---- MODULE Spec2Model ----
(***************************************************************************)
(* A model of djaploy: the configuration layer (config.py), the script and *)
(* inventory generators and the runner (deploy.py).                        *)
(*                                                                         *)
(* Python values are encoded as follows.                                   *)
(*   Optional[T]   None is << >>, a value v is << v >>                     *)
(*   str           a TLA+ string                                           *)
(*   list          a sequence                                              *)
(*   dict          a function from its keys                                *)
(*   text          a sequence of lines, a line being a sequence of tokens  *)
(***************************************************************************)
EXTENDS Integers, Sequences, FiniteSets, TLC

(***************************************************************************)
(* Bounds of the model.                                                    *)
(***************************************************************************)
MaxHosts == 2
MaxModules == 2

None == << >>
Some(v) == << v >>

RECURSIVE SeqsUpTo(_, _)
SeqsUpTo(S, n) ==
    IF n = 0 THEN { << >> }
    ELSE LET shorter == SeqsUpTo(S, n - 1)
         IN  shorter \cup { Append(s, x) : s \in { t \in shorter : Len(t) = n - 1 }, x \in S }

Contains(seq, x) == \E i \in 1..Len(seq) : seq[i] = x

Count(seq, x) == Cardinality({ i \in 1..Len(seq) : seq[i] = x })

\* Python truthiness of an Optional[str]: None and "" are falsy.
TruthyOptStr(o) == o # None /\ o[1] # ""

\* Python truthiness of a str.
TruthyStr(s) == s # ""

(***************************************************************************)
(* config.py: BackupConfig                                                 *)
(***************************************************************************)
OptStrs == { None, Some(""), Some("v") }

\* The fields of BackupConfig with their defaults.
BackupConfigDefaults ==
    [ enabled |-> TRUE, type |-> "sftp",
      host |-> None, user |-> None, password |-> None, port |-> 22,
      s3_endpoint |-> None, s3_region |-> None, s3_access_key |-> None,
      s3_secret_key |-> None, s3_bucket |-> None,
      backup_path |-> "/backups", retention_days |-> 30,
      databases |-> << "default.db" >>, backup_media |-> TRUE,
      schedule |-> "0 2 * * *" ]

BackupConfig(enabled, type, host, user, s3_endpoint, s3_region, s3_access_key, s3_secret_key, s3_bucket) ==
    [ BackupConfigDefaults EXCEPT
        !.enabled = enabled, !.type = type, !.host = host, !.user = user,
        !.s3_endpoint = s3_endpoint, !.s3_region = s3_region,
        !.s3_access_key = s3_access_key, !.s3_secret_key = s3_secret_key,
        !.s3_bucket = s3_bucket ]

BackupTypes == { "sftp", "s3", "ftp" }

BackupConfigs ==
    { BackupConfig(e, t, h, u, ep, rg, ak, sk, bk) :
        e \in BOOLEAN, t \in BackupTypes, h \in OptStrs, u \in OptStrs,
        ep \in OptStrs, rg \in { None, Some("eu") }, ak \in OptStrs,
        sk \in OptStrs, bk \in OptStrs }

\* BackupConfig.validate with `any` in place of `all` in the SFTP test.
BackupValidateAnySftp(b) ==
    IF b.type = "sftp"
    THEN IF ~(TruthyOptStr(b.host) \/ TruthyOptStr(b.user))
         THEN "SFTP backup requires host and user" ELSE "ok"
    ELSE IF b.type = "s3"
    THEN IF ~(TruthyOptStr(b.s3_endpoint) /\ TruthyOptStr(b.s3_access_key)
              /\ TruthyOptStr(b.s3_secret_key) /\ TruthyOptStr(b.s3_bucket))
         THEN "S3 backup requires endpoint, access_key, secret_key, and bucket"
         ELSE "ok"
    ELSE "Invalid backup type"

\* BackupConfig.validate: the error it raises, or "ok" when it returns True.
BackupValidate(b) ==
    IF b.type = "sftp"
    THEN IF ~(TruthyOptStr(b.host) /\ TruthyOptStr(b.user))
         THEN "SFTP backup requires host and user" ELSE "ok"
    ELSE IF b.type = "s3"
    THEN IF ~(TruthyOptStr(b.s3_endpoint) /\ TruthyOptStr(b.s3_access_key)
              /\ TruthyOptStr(b.s3_secret_key) /\ TruthyOptStr(b.s3_bucket))
         THEN "S3 backup requires endpoint, access_key, secret_key, and bucket"
         ELSE "ok"
    ELSE "Invalid backup type"

(***************************************************************************)
(* config.py: HostConfig                                                   *)
(***************************************************************************)
\* The fields of HostConfig with their defaults (name and ssh_host have none).
HostConfigDefaults ==
    [ name |-> "", ssh_host |-> "", ssh_user |-> "deploy", ssh_port |-> 22,
      app_user |-> "app", app_hostname |-> None, env |-> "production",
      services |-> << >>, timer_services |-> << >>, domains |-> << >>,
      backup |-> None, data |-> << >> ]

HostConfig(name, ssh_host, app_user, app_hostname, env, services, backup, data) ==
    [ HostConfigDefaults EXCEPT
        !.name = name, !.ssh_host = ssh_host, !.app_user = app_user,
        !.app_hostname = app_hostname, !.env = env, !.services = services,
        !.backup = backup, !.data = data ]

RcloneModule == "djaploy.modules.rclone"

\* HostConfig.get_required_modules
get_required_modules(h) ==
    IF h.backup # None /\ h.backup[1].enabled THEN << RcloneModule >> ELSE << >>

\* {**base, **extra}: the keys of both, extra's value where both have the key.
DictMerge(base, extra) ==
    [ k \in DOMAIN base \cup DOMAIN extra |->
        IF k \in DOMAIN extra THEN extra[k] ELSE base[k] ]

\* dataclasses.asdict of an Optional[BackupConfig]: the mapping of its fields.
asdict(b) == [ k \in DOMAIN b |-> b[k] ]

\* HostConfig.to_pyinfra_host
to_pyinfra_host(h) ==
    [ name |-> h.name, ssh_host |-> h.ssh_host, ssh_user |-> h.ssh_user,
      ssh_port |-> h.ssh_port,
      data |-> DictMerge(
          [ app_user |-> h.app_user,
            app_hostname |-> IF TruthyOptStr(h.app_hostname)
                             THEN h.app_hostname[1] ELSE h.ssh_host,
            env |-> h.env,
            services |-> h.services,
            timer_services |-> h.timer_services,
            domains |-> h.domains,
            backup |-> IF h.backup # None THEN Some(asdict(h.backup[1])) ELSE None ],
          h.data) ]

(***************************************************************************)
(* config.py: DjaployConfig                                                *)
(***************************************************************************)
\* str(Path(s)): the empty string names the current directory.
PathOf(s) == IF s = "" THEN "." ELSE s

\* Path(x) if x is not None: an Optional[str] argument becomes an Optional[Path].
ToOptPath(o) == IF o = None THEN None ELSE Some(PathOf(o[1]))

\* Python truthiness of an Optional[Path]: only None is falsy, every Path is truthy.
TruthyOptPath(o) == o # None

\* The inner loop of __post_init__ without its `not in` test.
RECURSIVE AppendAlways(_, _)
AppendAlways(mods, required) ==
    IF required = << >> THEN mods
    ELSE AppendAlways(Append(mods, Head(required)), Tail(required))

\* The inner loop of __post_init__ for one host: append what is not yet listed.
RECURSIVE AppendMissing(_, _)
AppendMissing(mods, required) ==
    IF required = << >> THEN mods
    ELSE AppendMissing(
            IF Contains(mods, Head(required)) THEN mods ELSE Append(mods, Head(required)),
            Tail(required))

\* The outer loop of __post_init__ over self.hosts.
RECURSIVE AddRequiredModules(_, _)
AddRequiredModules(mods, hs) ==
    IF hs = << >> THEN mods
    ELSE AddRequiredModules(AppendMissing(mods, get_required_modules(Head(hs))), Tail(hs))

\* DjaployConfig(...) followed by __post_init__. cfg_hosts is Optional[List[HostConfig]].
DjaployConfig(project_name, project_dir, djaploy_dir, app_user, mods, cfg_hosts) ==
    [ app_user |-> app_user,
      project_name |-> project_name,
      project_dir |-> ToOptPath(project_dir),
      djaploy_dir |-> ToOptPath(djaploy_dir),
      modules |-> IF cfg_hosts # None /\ cfg_hosts[1] # << >>
                  THEN AddRequiredModules(mods, cfg_hosts[1]) ELSE mods,
      hosts |-> cfg_hosts ]

\* The list `errors` that DjaployConfig.validate collects.
validate_errors(c) ==
    (IF ~TruthyStr(c.project_name) THEN << "project_name is required" >> ELSE << >>)
    \o (IF ~TruthyStr(c.app_user) THEN << "app_user is required" >> ELSE << >>)
    \o (IF ~TruthyOptPath(c.djaploy_dir) THEN << "djaploy_dir is required" >> ELSE << >>)

\* DjaployConfig.validate: raises ValueError carrying the joined errors, or returns True.
validate(c) ==
    IF validate_errors(c) # << >>
    THEN [ raised |-> TRUE, exc |-> "ValueError", errors |-> validate_errors(c) ]
    ELSE [ raised |-> FALSE, exc |-> "", errors |-> << >> ]

(***************************************************************************)
(* modules: a loaded module instance is its class (module path and class   *)
(* name), its `name` and the text of its `config`.                          *)
(***************************************************************************)
Module(module_path, cls, name, cfg) ==
    [ name |-> name, module_path |-> module_path, cls |-> cls, config |-> cfg ]

CoreInstance == Module("djaploy.modules.core", "CoreModule", "core", "{}")
TailscaleInstance ==
    Module("djaploy.modules.tailscale", "TailscaleModule", "tailscale", "{'enabled': True}")
RcloneInstance == Module(RcloneModule, "RcloneModule", "rclone", "{}")

ModuleInstances == { CoreInstance, TailscaleInstance, RcloneInstance }

(***************************************************************************)
(* deploy.py: the generators. A text is the sequence of its lines and a    *)
(* line the sequence of the pieces the f-string puts together.              *)
(***************************************************************************)
Blank == << >>

ImportLine(m) == << "from ", m.module_path, " import ", m.cls >>

RECURSIVE ImportLines(_)
ImportLines(mods) ==
    IF mods = << >> THEN << >>
    ELSE << ImportLine(Head(mods)) >> \o ImportLines(Tail(mods))

CallLine(method, arglist) == << "module.", method, arglist >>

ConfigureArgs == "(host.data, project_config)"
DeployArgs == "(host.data, project_config, artifact_path)"

\* The configure block with the main and the post call in each other's place.
ConfigureBlockSwapped(m) ==
    << Blank,
       << "# Configure ", m.name >>,
       << "module = ", m.cls, "(", m.config, ")" >>,
       CallLine("pre_configure", ConfigureArgs),
       CallLine("post_configure", ConfigureArgs),
       CallLine("configure_server", ConfigureArgs) >>

\* The block the second loop of _generate_configure_script adds for one module.
ConfigureBlock(m) ==
    << Blank,
       << "# Configure ", m.name >>,
       << "module = ", m.cls, "(", m.config, ")" >>,
       CallLine("pre_configure", ConfigureArgs),
       CallLine("configure_server", ConfigureArgs),
       CallLine("post_configure", ConfigureArgs) >>

RECURSIVE ConfigureBlocks(_)
ConfigureBlocks(mods) ==
    IF mods = << >> THEN << >>
    ELSE ConfigureBlock(Head(mods)) \o ConfigureBlocks(Tail(mods))

_generate_configure_script(mods) ==
    << Blank,
       << "from pyinfra import host" >>,
       Blank,
       << "# Import module implementations" >> >>
    \o ImportLines(mods)
    \o << Blank,
          << "# Get configuration from host data" >>,
          << "config = host.data.config" >>,
          << "project_config = host.data.project_config" >>,
          Blank,
          << "# Run module configurations" >> >>
    \o ConfigureBlocks(mods)

\* The block the second loop of _generate_deploy_script adds for one module.
DeployBlock(m) ==
    << Blank,
       << "# Deploy ", m.name >>,
       << "module = ", m.cls, "(", m.config, ")" >>,
       CallLine("pre_deploy", DeployArgs),
       CallLine("deploy", DeployArgs),
       CallLine("post_deploy", DeployArgs) >>

RECURSIVE DeployBlocks(_)
DeployBlocks(mods) ==
    IF mods = << >> THEN << >>
    ELSE DeployBlock(Head(mods)) \o DeployBlocks(Tail(mods))

_generate_deploy_script(mods, artifact_path) ==
    << Blank,
       << "from pyinfra import host" >>,
       << "from pathlib import Path" >>,
       Blank,
       << "# Import module implementations" >> >>
    \o ImportLines(mods)
    \o << Blank,
          << "# Get configuration from host data" >>,
          << "config = host.data.config" >>,
          << "project_config = host.data.project_config" >>,
          << "artifact_path = Path(\"", artifact_path, "\")" >>,
          Blank,
          << "# Run module deployments" >> >>
    \o DeployBlocks(mods)

\* The text f"{host_dict}" puts into the inventory for one mapping.
Repr(d) == [ repr |-> d ]

InventoryEntry(h) == << "    ", Repr(to_pyinfra_host(h)), "," >>

\* The loop of _create_inventory putting every entry before the earlier ones.
RECURSIVE InventoryEntriesReversed(_)
InventoryEntriesReversed(hs) ==
    IF hs = << >> THEN << >>
    ELSE InventoryEntriesReversed(Tail(hs)) \o << InventoryEntry(Head(hs)) >>

\* The loop of _create_inventory: one entry per host, in list order.
RECURSIVE InventoryEntries(_)
InventoryEntries(hs) ==
    IF hs = << >> THEN << >>
    ELSE << InventoryEntry(Head(hs)) >> \o InventoryEntries(Tail(hs))

_create_inventory(hs) ==
    << << "hosts = [" >> >> \o InventoryEntries(hs) \o << << "]" >> >>

(***************************************************************************)
(* modules/core.py, modules/tailscale.py: what a module method issues on   *)
(* the remote host. A method is the sequence of its pyinfra operations and *)
(* fact queries, each << function, name pieces ... >>, in the order of the *)
(* calls. host_data and project_config are mappings from keys to values.   *)
(***************************************************************************)
\* d.get(key, default), getattr(d, key, default)
DictGet(d, key, default) == IF key \in DOMAIN d THEN d[key] ELSE default

\* version_map.get(major_minor, f"{major_minor}.0"), as the pieces of the string
full_version(version) ==
    IF version = "3.11" THEN << "3.11.9" >>
    ELSE IF version = "3.12" THEN << "3.12.7" >>
    ELSE IF version = "3.13" THEN << "3.13.3" >>
    ELSE << version, ".0" >>

\* python_install_path = f"/usr/local/bin/python{major_minor}"
python_install_path(version) == << "/usr/local/bin/python", version >>

\* The five operations with the cleanup before the altinstall.
BuildOperationsCleanupEarly(version) ==
    << << "apt.packages", "Install Python build dependencies" >>,
       << "server.shell", "Download Python " >> \o full_version(version) \o << " source" >>,
       << "server.shell", "Configure and compile Python " >> \o full_version(version),
       << "server.shell", "Clean up Python " >> \o full_version(version)
            \o << " source files" >>,
       << "server.shell", "Install Python " >> \o full_version(version)
            \o << " using altinstall" >> >>

\* _compile_python, the branch that builds the interpreter.
BuildOperations(version) ==
    << << "apt.packages", "Install Python build dependencies" >>,
       << "server.shell", "Download Python " >> \o full_version(version) \o << " source" >>,
       << "server.shell", "Configure and compile Python " >> \o full_version(version),
       << "server.shell", "Install Python " >> \o full_version(version)
            \o << " using altinstall" >>,
       << "server.shell", "Clean up Python " >> \o full_version(version)
            \o << " source files" >> >>

\* _compile_python(version, host_data); which is the value of the fact
\* host.get_fact(Which, python_install_path), None when the binary is absent.
_compile_python(version, which) ==
    << << "host.get_fact", "Which" >> \o python_install_path(version) >>
    \o (IF which = None
        THEN BuildOperations(version)
        ELSE << << "server.shell", "Python " >> \o full_version(version)
                  \o << " already installed at " >> \o python_install_path(version) >>)

\* _install_python(host_data, project_config)
_install_python(project_config, which) ==
    IF DictGet(project_config, "python_compile", FALSE)
    THEN _compile_python(project_config["python_version"], which)
    ELSE << << "apt.packages", "Install Python ", project_config["python_version"] >> >>

\* A configure_server that authenticates before it installs.
TailscaleModule_configure_server_AuthFirst(host_data, deb_package) ==
    LET auth_key == DictGet(host_data, "tailscale_auth_key", "")
    IN  IF ~TruthyStr(auth_key) THEN << >>
        ELSE << << "host.get_fact", "DebPackage", "tailscale" >> >>
             \o << << "server.shell", "Authenticate Tailscale",
                     "tailscale up --authkey ", auth_key >> >>
             \o (IF deb_package = None
                 THEN << << "server.shell", "Install Tailscale" >> >> ELSE << >>)

\* TailscaleModule.configure_server(host_data, project_config); deb_package is the
\* value of the fact host.get_fact(DebPackage, 'tailscale'). A missing key and the
\* value None of tailscale_auth_key are both the falsy "".
TailscaleModule_configure_server(host_data, deb_package) ==
    LET auth_key == DictGet(host_data, "tailscale_auth_key", "")
    IN  IF ~TruthyStr(auth_key) THEN << >>
        ELSE << << "host.get_fact", "DebPackage", "tailscale" >> >>
             \o (IF deb_package = None
                 THEN << << "server.shell", "Install Tailscale" >> >> ELSE << >>)
             \o << << "server.shell", "Authenticate Tailscale",
                     "tailscale up --authkey ", auth_key >> >>

\* _get_manage_py_path: the path when project_config has a truthy manage_py_path,
\* else None.
_get_manage_py_path(project_config) ==
    IF TruthyStr(DictGet(project_config, "manage_py_path", ""))
    THEN Some(project_config["manage_py_path"])
    ELSE None

_install_dependencies(app_user) ==
    << << "server.shell", "Install Python dependencies", app_user >> >>

_run_migrations(app_user, project_config) ==
    LET manage_py == _get_manage_py_path(project_config)
    IN  IF manage_py # None
        THEN << << "server.shell", "Run database migrations", app_user, manage_py[1] >> >>
        ELSE << >>

\* A _collect_static without the test of manage_py.
CollectStaticUnguarded(app_user, project_config) ==
    << << "server.shell", "Collect static files", app_user,
          DictGet(project_config, "manage_py_path", "") >> >>

_collect_static(app_user, project_config) ==
    LET manage_py == _get_manage_py_path(project_config)
    IN  IF manage_py # None
        THEN << << "server.shell", "Collect static files", app_user, manage_py[1] >> >>
        ELSE << >>

\* _generate_ssl_certificates(host_data, app_user): one certificate per domain, for
\* app_hostname (or localhost) when host_data lists no domains.
_generate_ssl_certificates(host_data, app_user) ==
    LET listed == DictGet(host_data, "domains", << >>)
        domains == IF listed = << >>
                   THEN << DictGet(host_data, "app_hostname", "localhost") >>
                   ELSE listed
    IN  << << "apt.packages", "Install OpenSSL for certificate generation" >>,
           << "files.directory", "Create SSL directory", app_user >> >>
        \o [ i \in 1..Len(domains) |->
               << "server.shell", "Generate self-signed SSL certificate for ",
                  domains[i] >> ]

\* CoreModule.deploy(host_data, project_config, artifact_path)
CoreModule_deploy(host_data, project_config) ==
    LET app_user == IF TruthyStr(DictGet(host_data, "app_user", ""))
                    THEN host_data["app_user"] ELSE project_config["app_user"]
    IN  << << "files.directory", "Create tars directory" >>,
           << "files.directory", "Create application directory", app_user >>,
           << "files.put", "Upload deployment artifact" >>,
           << "server.shell", "Extract artifact and set permissions", app_user >>,
           << "server.shell", "Put deploy files (NGINX, systemd) in place on remote" >>,
           << "server.shell", "Clear default NGINX site and enable application sites" >> >>
        \o (IF DictGet(host_data, "pregenerate_certificates", FALSE)
            THEN _generate_ssl_certificates(host_data, app_user) ELSE << >>)
        \o _install_dependencies(app_user)
        \o _run_migrations(app_user, project_config)
        \o _collect_static(app_user, project_config)

(***************************************************************************)
(* The state of a run.                                                     *)
(***************************************************************************)
VARIABLES
    pc,             \* position of the running configure_server/deploy_project call
    op,             \* "configure" or "deploy"
    config,         \* the DjaployConfig passed to the call
    config_args,    \* the arguments that DjaployConfig was constructed with
    hosts,          \* the hosts passed to the call
    prepare_exists, \* project_dir / "prepare.py" exists
    artifact_path,  \* local `artifact_path` of deploy_project (Optional)
    modules,        \* local `modules` of the call (loaded module instances)
    f,              \* the temporary file the current `with` block holds open (Optional)
    fs,             \* temporary files on disk: name -> content
    script_path,    \* local `script_path` (Optional)
    inventory_path, \* local `inventory_path` of _run_pyinfra (Optional)
    cwd,            \* the process working directory
    original_dir,   \* local `original_dir` of _run_prepare (Optional)
    cmds,           \* the pyinfra command lines run so far, with the files they saw
    outcome,        \* "running", "returned" or "raised"
    error,          \* the exception the call raised (Optional)
    trace,          \* the steps the call has executed, in order
    call            \* the last application of a pure function: [fn, args, result]

\* The state of a management command (configureserver, deploy) around the call.
VARIABLES
    command,        \* "configureserver" or "deploy"
    options,        \* the parsed options handle() is given
    hpc,            \* position of the running handle()
    inventory_dir,  \* local `inventory_dir` of handle (Optional)
    mode,           \* local `mode` of handle (Optional)
    release_tag,    \* local `release_tag` of handle (Optional, None is Python's None)
    calls,          \* the calls handle has made of configure_server/deploy_project
    stdout,         \* what handle has written to self.stdout
    handle_error,   \* the exception that left handle (Optional)
    loaded          \* which of load_config, load_inventory handle has called, in order

cmdvars == <<command, options, hpc, inventory_dir, mode, release_tag, calls, stdout,
             handle_error, loaded>>

vars == <<pc, op, config, config_args, hosts, prepare_exists, artifact_path, modules,
          f, fs, script_path,
          inventory_path, cwd, original_dir, cmds, outcome, error, trace, call, cmdvars>>

runvars == <<pc, op, config, config_args, hosts, prepare_exists, artifact_path, modules,
          f, fs, script_path,
             inventory_path, cwd, original_dir, cmds, outcome, error, trace, cmdvars>>

(***************************************************************************)
(* The inputs the model draws from.                                        *)
(***************************************************************************)
SftpBackup(enabled) ==
    BackupConfig(enabled, "sftp", Some("backup.example.com"), Some("backup"),
                 None, None, None, None, None)

\* An SFTP backup without host: BackupConfig.validate rejects it.
SftpBackupNoHost ==
    BackupConfig(TRUE, "sftp", None, Some("backup"), None, None, None, None, None)

EmptyDict == << >>

DataBags ==
    { EmptyDict,
      [ custom |-> "x" ],
      [ app_user |-> "root" ],
      [ env |-> "staging", custom |-> "x" ] }

\* The hosts to_pyinfra_host is applied to.
AllHosts ==
    { HostConfig("web1", "10.0.0.1", "app", ah, "production", sv, bk, d) :
        ah \in { None, Some(""), Some("app.example.com") },
        sv \in { << >>, << "web" >> },
        bk \in { None, Some(SftpBackup(TRUE)), Some(SftpBackup(FALSE)) },
        d \in DataBags }

PlainHost == HostConfig("web1", "10.0.0.1", "app", None, "production", << >>, None, EmptyDict)
BackupHost ==
    HostConfig("web2", "10.0.0.2", "app", Some("app.example.com"), "production",
               << "web" >>, Some(SftpBackup(TRUE)), EmptyDict)
BackupOffHost ==
    HostConfig("web3", "10.0.0.3", "app", None, "staging", << >>,
               Some(SftpBackup(FALSE)), [ custom |-> "x" ])
BadBackupHost ==
    HostConfig("web4", "10.0.0.4", "app", None, "production", << >>,
               Some(SftpBackupNoHost), EmptyDict)

\* The hosts lists are made of.
ListHosts == { PlainHost, BackupHost, BackupOffHost }

HostLists == SeqsUpTo(ListHosts, MaxHosts)

ModuleNames == { "djaploy.modules.core", RcloneModule }

ModuleNameLists == SeqsUpTo(ModuleNames, MaxModules)

ModuleLists == SeqsUpTo(ModuleInstances, MaxModules)

(***************************************************************************)
(* The state in which no call is running.                                  *)
(***************************************************************************)
NoConfig == DjaployConfig("", None, None, "", << >>, None)

RunIdle ==
    /\ pc = "idle"
    /\ op = "none"
    /\ config = NoConfig
    /\ config_args = << >>
    /\ hosts = << >>
    /\ prepare_exists = FALSE
    /\ artifact_path = None
    /\ modules = << >>
    /\ f = None
    /\ fs = << >>
    /\ script_path = None
    /\ inventory_path = None
    /\ cwd = "/home/user"
    /\ original_dir = None
    /\ cmds = << >>
    /\ outcome = "idle"
    /\ error = None
    /\ trace = << >>

NoCall == [ fn |-> "none", args |-> << >>, result |-> << >> ]

\* The options of a command that has not been invoked.
NoOptions == [ inventory_dir |-> None, local |-> FALSE, latest |-> FALSE, release |-> None ]

CmdIdle ==
    /\ command = "none"
    /\ options = NoOptions
    /\ hpc = "idle"
    /\ inventory_dir = None
    /\ mode = None
    /\ release_tag = None
    /\ calls = << >>
    /\ stdout = << >>
    /\ handle_error = None
    /\ loaded = << >>

(***************************************************************************)
(* SpecFn: the pure functions of config.py and deploy.py, each applied to  *)
(* inputs drawn from the sets above. `call` records the application.        *)
(***************************************************************************)
Apply(fn, args, result) ==
    /\ call.fn = "none"
    /\ call' = [ fn |-> fn, args |-> args, result |-> result ]
    /\ UNCHANGED runvars

\* DjaployConfig(project_name, app_user=, djaploy_dir=).validate()
ApplyValidate ==
    \E pn \in { "", "shop" }, au \in { "", "app" },
       dd \in { None, Some(""), Some("djaploy") } :
        Apply("validate", << pn, au, dd >>,
              validate(DjaployConfig(pn, None, dd, au, << >>, None)))

\* BackupConfig(...).validate()
ApplyBackupValidate ==
    \E b \in BackupConfigs : Apply("BackupConfig.validate", b, BackupValidate(b))

\* DjaployConfig(modules=, hosts=): the modules list __post_init__ leaves.
ApplyPostInit ==
    \E mods \in ModuleNameLists, hs \in { None } \cup { Some(l) : l \in HostLists } :
        Apply("__post_init__", [ modules |-> mods, hosts |-> hs ],
              DjaployConfig("shop", None, Some("djaploy"), "app", mods, hs).modules)

\* HostConfig.to_pyinfra_host()
ApplyToPyinfraHost ==
    \E h \in AllHosts : Apply("to_pyinfra_host", h, to_pyinfra_host(h))

\* _create_inventory(hosts)
ApplyCreateInventory ==
    \E hs \in HostLists : Apply("_create_inventory", hs, _create_inventory(hs))

\* _generate_configure_script(config, hosts, modules)
ApplyGenerateConfigure ==
    \E mods \in ModuleLists :
        Apply("_generate_configure_script", mods, _generate_configure_script(mods))

\* _generate_deploy_script(config, hosts, modules, artifact_path)
ApplyGenerateDeploy ==
    \E mods \in ModuleLists :
        Apply("_generate_deploy_script", mods,
              _generate_deploy_script(mods, "/tmp/shop.tar.gz"))

\* The project_config mappings of CoreModule: python_compile and manage_py_path may
\* be missing.
PythonVersions == { "3.9", "3.11", "3.12" }

CoreProjectConfigs ==
    { DictMerge(DictMerge([ app_user |-> "app", python_version |-> v ], c), m) :
        v \in PythonVersions,
        c \in { EmptyDict, [ python_compile |-> FALSE ], [ python_compile |-> TRUE ] },
        m \in { EmptyDict, [ manage_py_path |-> "" ], [ manage_py_path |-> "manage.py" ] } }

\* The host data of a deploy: app_user, pregenerate_certificates and domains may be
\* missing.
DomainNames == { "shop.example.com", "www.example.com" }

CoreHostDatas ==
    { DictMerge(DictMerge(DictMerge([ app_hostname |-> "app.example.com" ], u), g), d) :
        u \in { EmptyDict, [ app_user |-> "" ], [ app_user |-> "web" ] },
        g \in { EmptyDict, [ pregenerate_certificates |-> FALSE ],
                [ pregenerate_certificates |-> TRUE ] },
        d \in { EmptyDict } \cup { [ domains |-> l ] : l \in SeqsUpTo(DomainNames, MaxHosts) } }

\* The host data of TailscaleModule.configure_server.
TailscaleHostDatas ==
    { [ app_user |-> "app" ],
      [ app_user |-> "app", tailscale_auth_key |-> "" ],
      [ app_user |-> "app", tailscale_auth_key |-> "tskey-auth-1" ] }

\* The values of the facts Which and DebPackage: None, or what the host reports.
WhichFacts == { None, Some("/usr/local/bin/python") }

DebPackageFacts == { None, Some("1.58.2") }

\* CoreModule._install_python(host_data, project_config) on a host with the fact
ApplyInstallPython ==
    \E project_config \in CoreProjectConfigs, which \in WhichFacts :
        Apply("_install_python", << project_config, which >>,
              _install_python(project_config, which))

\* TailscaleModule.configure_server(host_data, project_config) on a host with the fact
ApplyTailscaleConfigure ==
    \E host_data \in TailscaleHostDatas, deb_package \in DebPackageFacts :
        Apply("TailscaleModule.configure_server", << host_data, deb_package >>,
              TailscaleModule_configure_server(host_data, deb_package))

\* CoreModule.deploy(host_data, project_config, artifact_path)
ApplyCoreDeploy ==
    \E host_data \in CoreHostDatas, project_config \in CoreProjectConfigs :
        Apply("CoreModule.deploy", << host_data, project_config >>,
              CoreModule_deploy(host_data, project_config))

InitFn == RunIdle /\ call = NoCall /\ CmdIdle

NextFn ==
    \/ ApplyValidate
    \/ ApplyBackupValidate
    \/ ApplyPostInit
    \/ ApplyToPyinfraHost
    \/ ApplyCreateInventory
    \/ ApplyGenerateConfigure
    \/ ApplyGenerateDeploy
    \/ ApplyInstallPython
    \/ ApplyTailscaleConfigure
    \/ ApplyCoreDeploy

SpecFn == InitFn /\ [][NextFn]_vars

(***************************************************************************)
(* deploy.py: the runner. One call of configure_server or deploy_project,  *)
(* a step at a time; every step that can raise does so nondeterministically.*)
(***************************************************************************)
\* The names tempfile.NamedTemporaryFile can give a new file.
TmpNames == { "/tmp/tmpa.py", "/tmp/tmpb.py", "/tmp/tmpc.py" }

\* The hosts a call is given.
RunHosts == { PlainHost, BackupHost, BadBackupHost }

RunHostLists == SeqsUpTo(RunHosts, MaxHosts)

\* The modules list of the config a call is given.
RunModules == << "djaploy.modules.core", "djaploy.modules.tailscale" >>

\* The module instance a module name resolves to.
InstanceOf(module_name) ==
    IF module_name = RcloneModule THEN RcloneInstance
    ELSE IF module_name = "djaploy.modules.tailscale" THEN TailscaleInstance
    ELSE CoreInstance

\* load_modules(config.modules, config.module_configs, hosts): the listed modules and
\* the modules the hosts require, each once, instantiated in list order.
load_modules(module_names, hs) ==
    LET names == AddRequiredModules(module_names, hs)
    IN  [ i \in 1..Len(names) |-> InstanceOf(names[i]) ]

\* tempfile.NamedTemporaryFile(delete=False): a new, empty file.
CreateFile(files, path) ==
    [ n \in DOMAIN files \cup { path } |-> IF n = path THEN << >> ELSE files[n] ]

\* f.write(text)
WriteFile(files, path, text) ==
    [ n \in DOMAIN files |-> IF n = path THEN text ELSE files[n] ]

\* A finally block that removes nothing.
UnlinkNothing(files, path) == files

\* os.unlink(path)

Unlink(files, path) == [ n \in DOMAIN files \ { path } |-> files[n] ]

Step(name) == trace' = Append(trace, name)

\* An exception leaves the call: nothing of the call runs after it.
Raise(exc) ==
    /\ pc' = "done"
    /\ outcome' = "raised"
    /\ error' = Some(exc)

\* The call is made on a constructed DjaployConfig.
Start ==
    /\ pc = "idle"
    /\ \E o \in { "configure", "deploy" },
          pn \in { "", "shop" }, au \in { "", "app" },
          dd \in { None, Some(""), Some("djaploy") },
          pd \in { None, Some("/srv/shop") },
          hs \in RunHostLists, pe \in BOOLEAN :
        /\ o = "configure" => pd = Some("/srv/shop") /\ ~pe
        /\ pd = None => ~pe
        /\ op' = o
        /\ config_args' = << pn, au, dd >>
        /\ config' = DjaployConfig(pn, pd, dd, au, RunModules, Some(hs))
        /\ hosts' = hs
        /\ prepare_exists' = pe
    /\ pc' = "validate"
    /\ outcome' = "running"
    /\ UNCHANGED <<artifact_path, modules, f, fs, script_path, inventory_path, cwd,
                   original_dir, cmds, error, trace, call, cmdvars>>

\* config.validate()
Validate ==
    /\ pc = "validate"
    /\ Step("validate")
    /\ IF validate(config).raised
       THEN Raise("ValueError")
       ELSE /\ pc' = IF op = "deploy" THEN "artifact" ELSE "load"
            /\ UNCHANGED <<outcome, error>>
    /\ UNCHANGED <<op, config, config_args, hosts, prepare_exists, artifact_path,
                   modules, f, fs, script_path, inventory_path, cwd, original_dir, cmds, call, cmdvars>>

\* artifact_path = create_artifact(config=config, mode=mode, release_tag=release_tag)
CreateArtifact ==
    /\ pc = "artifact"
    /\ Step("create_artifact")
    /\ \/ /\ artifact_path' = Some("/srv/shop/deployment/shop.tar.gz")
          /\ pc' = "load"
          /\ UNCHANGED <<outcome, error>>
       \/ /\ Raise("ArtifactError")
          /\ UNCHANGED artifact_path
    /\ UNCHANGED <<op, config, config_args, hosts, prepare_exists, modules, f, fs,
                   script_path, inventory_path, cwd, original_dir, cmds, call, cmdvars>>

\* A deploy_project that goes on when load_modules fails.
LoadModulesOrGoOn ==
    /\ pc = "load"
    /\ Step("load_modules")
    /\ \/ modules' = load_modules(config.modules, hosts)
       \/ UNCHANGED modules
    /\ pc' = IF op = "deploy" THEN "prepare" ELSE "script"
    /\ UNCHANGED <<outcome, error>>
    /\ UNCHANGED <<op, config, config_args, hosts, prepare_exists, artifact_path, f, fs,
                   script_path, inventory_path, cwd, original_dir, cmds, call, cmdvars>>

\* modules = load_modules(config.modules, config.module_configs, hosts)
LoadModules ==
    /\ pc = "load"
    /\ Step("load_modules")
    /\ \/ /\ modules' = load_modules(config.modules, hosts)
          /\ pc' = IF op = "deploy" THEN "prepare" ELSE "script"
          /\ UNCHANGED <<outcome, error>>
       \/ /\ Raise("ImportError")
          /\ UNCHANGED modules
    /\ UNCHANGED <<op, config, config_args, hosts, prepare_exists, artifact_path, f, fs,
                   script_path, inventory_path, cwd, original_dir, cmds, call, cmdvars>>

\* prepare_script = config.project_dir / "prepare.py"; if prepare_script.exists(): ...
\* and, in _run_prepare, os.chdir(config.project_dir).
PrepareCheck ==
    /\ pc = "prepare"
    /\ IF config.project_dir = None
       THEN Raise("TypeError") /\ UNCHANGED <<cwd, original_dir, trace>>
       ELSE IF ~prepare_exists
       THEN pc' = "script" /\ UNCHANGED <<outcome, error, cwd, original_dir, trace>>
       ELSE /\ Step("prepare")
            /\ original_dir' = Some(cwd)
            /\ \/ /\ cwd' = config.project_dir[1]
                  /\ pc' = "prepare_run"
                  /\ UNCHANGED <<outcome, error>>
               \/ Raise("OSError") /\ UNCHANGED cwd
    /\ UNCHANGED <<op, config, config_args, hosts, prepare_exists, artifact_path,
                   modules, f, fs, script_path, inventory_path, cmds, call, cmdvars>>

\* A _run_prepare that goes back to the original directory only when the prepare
\* script exits successfully.
PrepareRunNoFinally ==
    /\ pc = "prepare_run"
    /\ \/ /\ cwd' = original_dir[1]
          /\ Step("prepare_done")
          /\ pc' = "script"
          /\ UNCHANGED <<outcome, error>>
       \/ /\ Raise("CalledProcessError")
          /\ UNCHANGED <<cwd, trace>>
    /\ UNCHANGED <<op, config, config_args, hosts, prepare_exists, artifact_path,
                   modules, f, fs, script_path, inventory_path, original_dir, cmds,
                   call, cmdvars>>

\* subprocess.run(["python", str(prepare_script)], check=True) and the finally block
\* of _run_prepare: os.chdir(original_dir), whether the script exits successfully
\* or check=True raises.
PrepareRun ==
    /\ pc = "prepare_run"
    /\ cwd' = original_dir[1]
    /\ \/ /\ Step("prepare_done")
          /\ pc' = "script"
          /\ UNCHANGED <<outcome, error>>
       \/ /\ Raise("CalledProcessError")
          /\ UNCHANGED trace
    /\ UNCHANGED <<op, config, config_args, hosts, prepare_exists, artifact_path,
                   modules, f, fs, script_path, inventory_path, original_dir, cmds,
                   call, cmdvars>>

\* with tempfile.NamedTemporaryFile(mode='w', suffix='.py', delete=False) as f:
CreateScriptFile ==
    /\ pc = "script"
    /\ \/ \E path \in TmpNames \ DOMAIN fs :
            /\ fs' = CreateFile(fs, path)
            /\ f' = Some(path)
            /\ pc' = "script_write"
            /\ Step("script_file")
            /\ UNCHANGED <<outcome, error>>
       \/ Raise("OSError") /\ UNCHANGED <<f, fs, trace>>
    /\ UNCHANGED <<op, config, config_args, hosts, prepare_exists, artifact_path,
                   modules, script_path, inventory_path, cwd, original_dir, cmds, call, cmdvars>>

\* The text the call writes to its script file.
ScriptText ==
    IF op = "deploy" THEN _generate_deploy_script(modules, artifact_path[1])
    ELSE _generate_configure_script(modules)

\* f.write(_generate_..._script(...)); script_path = f.name, and the end of the
\* `with` block, which closes the file and keeps it (delete=False).
WriteScript ==
    /\ pc = "script_write"
    /\ f' = None
    /\ \/ /\ Raise("GenerateError")
          /\ UNCHANGED <<fs, script_path, trace>>
       \/ /\ Raise("OSError")
          /\ Step("generate_script")
          /\ UNCHANGED <<fs, script_path>>
       \/ /\ fs' = WriteFile(fs, f[1], ScriptText)
          /\ script_path' = f
          /\ pc' = "inventory"
          /\ trace' = trace \o << "generate_script", "write_script" >>
          /\ UNCHANGED <<outcome, error>>
    /\ UNCHANGED <<op, config, config_args, hosts, prepare_exists, artifact_path,
                   modules, inventory_path, cwd, original_dir, cmds, call, cmdvars>>

\* An exception inside `try: _run_pyinfra(script_path, hosts)` before the inner try is
\* entered: the finally block of the caller runs next.
RaiseInRunPyinfra(exc) ==
    /\ error' = Some(exc)
    /\ pc' = "unlink_script"
    /\ UNCHANGED outcome

\* _run_pyinfra: inventory = _create_inventory(hosts) and
\* with tempfile.NamedTemporaryFile(mode='w', suffix='.py', delete=False) as f:
CreateInventoryFile ==
    /\ pc = "inventory"
    /\ \/ RaiseInRunPyinfra("InventoryError") /\ UNCHANGED <<f, fs, trace>>
       \/ /\ RaiseInRunPyinfra("OSError")
          /\ Step("create_inventory")
          /\ UNCHANGED <<f, fs>>
       \/ \E path \in TmpNames \ DOMAIN fs :
            /\ fs' = CreateFile(fs, path)
            /\ f' = Some(path)
            /\ pc' = "inventory_write"
            /\ trace' = trace \o << "create_inventory", "inventory_file" >>
            /\ UNCHANGED <<outcome, error>>
    /\ UNCHANGED <<op, config, config_args, hosts, prepare_exists, artifact_path,
                   modules, script_path, inventory_path, cwd, original_dir, cmds, call, cmdvars>>

\* _run_pyinfra: f.write(inventory); inventory_path = f.name, and the end of the
\* `with` block.
WriteInventory ==
    /\ pc = "inventory_write"
    /\ f' = None
    /\ \/ /\ RaiseInRunPyinfra("OSError")
          /\ UNCHANGED <<fs, inventory_path, trace>>
       \/ /\ fs' = WriteFile(fs, f[1], _create_inventory(hosts))
          /\ inventory_path' = f
          /\ pc' = "pyinfra"
          /\ Step("write_inventory")
          /\ UNCHANGED <<outcome, error>>
    /\ UNCHANGED <<op, config, config_args, hosts, prepare_exists, artifact_path,
                   modules, script_path, cwd, original_dir, cmds, call, cmdvars>>

\* The exit statuses of the pyinfra process.
ExitStatuses == { 0, 1 }

\* A command line with the script before the inventory.
PyinfraCmdScriptFirst(inventory, script) == << "pyinfra", script, inventory, "-y" >>

\* _run_pyinfra: cmd = ["pyinfra", inventory_path, script_path, "-y"]
PyinfraCmd(inventory, script) == << "pyinfra", inventory, script, "-y" >>

\* _run_pyinfra: subprocess.run(cmd, check=True), which raises on a non-zero exit
\* status.
RunPyinfra ==
    /\ pc = "pyinfra"
    /\ \E status \in ExitStatuses :
        /\ cmds' = Append(cmds, [ files |-> DOMAIN fs,
                                  status |-> status,
                                  argv |-> PyinfraCmd(inventory_path[1],
                                                      script_path[1]) ])
        /\ error' = IF status = 0 THEN None ELSE Some("CalledProcessError")
    /\ pc' = "unlink_inventory"
    /\ Step("pyinfra")
    /\ UNCHANGED <<op, config, config_args, hosts, prepare_exists, artifact_path,
                   modules, f, fs, script_path, inventory_path, cwd, original_dir,
                   outcome, call, cmdvars>>

\* _run_pyinfra: finally: os.unlink(inventory_path)
UnlinkInventory ==
    /\ pc = "unlink_inventory"
    /\ fs' = Unlink(fs, inventory_path[1])
    /\ pc' = "unlink_script"
    /\ UNCHANGED <<op, config, config_args, hosts, prepare_exists, artifact_path,
                   modules, f, script_path, inventory_path, cwd, original_dir, cmds,
                   outcome, error, trace, call, cmdvars>>

\* configure_server, deploy_project: finally: os.unlink(script_path); the call then
\* returns, or the pending exception goes on.
UnlinkScript ==
    /\ pc = "unlink_script"
    /\ fs' = Unlink(fs, script_path[1])
    /\ pc' = "done"
    /\ outcome' = IF error = None THEN "returned" ELSE "raised"
    /\ UNCHANGED <<op, config, config_args, hosts, prepare_exists, artifact_path,
                   modules, f, script_path, inventory_path, cwd, original_dir, cmds,
                   error, trace, call, cmdvars>>

Init == RunIdle /\ call = NoCall /\ CmdIdle

Next ==
    \/ Start
    \/ Validate
    \/ CreateArtifact
    \/ LoadModules
    \/ PrepareCheck
    \/ PrepareRun
    \/ CreateScriptFile
    \/ WriteScript
    \/ CreateInventoryFile
    \/ WriteInventory
    \/ RunPyinfra
    \/ UnlinkInventory
    \/ UnlinkScript

Spec == Init /\ [][Next]_vars

(***************************************************************************)
(* management/commands: handle() of configureserver and of deploy, around  *)
(* the call of configure_server / deploy_project modelled above.           *)
(***************************************************************************)
CommandNames == { "configureserver", "deploy" }

\* The values the options can be parsed to; --release takes any string, the empty
\* one too.
OptionSets ==
    [ inventory_dir : { None, Some("/etc/inventory") },
      local : BOOLEAN, latest : BOOLEAN,
      release : { None, Some(""), Some("v1.2.0") } ]

\* deploy add_arguments: add_mutually_exclusive_group(required=True) of --local,
\* --latest (store_true) and --release (str): exactly one of them is given.
\* configureserver has none of the three.
ParserAccepts(cmd, opts) ==
    LET given == (IF opts.local THEN { "local" } ELSE { })
                 \cup (IF opts.latest THEN { "latest" } ELSE { })
                 \cup (IF opts.release # None THEN { "release" } ELSE { })
    IN  IF cmd = "deploy" THEN Cardinality(given) = 1 ELSE given = { }

\* The configs load_config returns.
LoadedConfigs ==
    { << pn, dd >> : pn \in { "", "shop" }, dd \in { None, Some("djaploy") } }

\* The host lists load_inventory returns.
CmdHostLists == SeqsUpTo({ PlainHost, BackupHost }, MaxHosts)

\* DjaployConfig.get_inventory_dir: self.djaploy_dir / "inventory"
get_inventory_dir(c) == << c.djaploy_dir[1], "inventory" >>

\* A mode determination that takes --release as given whenever it is not None.
DetermineModeNotNone(opts) ==
    IF opts.local THEN << "local", None >>
    ELSE IF opts.latest THEN << "latest", None >>
    ELSE IF opts.release # None THEN << "release", opts.release >>
    ELSE << >>

\* deploy handle: the if/elif chain on options["local"], options["latest"],
\* options["release"]. The result is << mode, release_tag >>, or << >> when the else
\* branch raises CommandError.
DetermineMode(opts) ==
    IF opts.local THEN << "local", None >>
    ELSE IF opts.latest THEN << "latest", None >>
    ELSE IF TruthyOptStr(opts.release) THEN << "release", opts.release >>
    ELSE << >>

\* An except clause that catches ValueError only.
IsValueError(exc) == exc = "ValueError"

\* `except Exception`: the classes derived from Exception; KeyboardInterrupt and
\* SystemExit are not.
IsException(exc) == exc \notin { "KeyboardInterrupt", "SystemExit" }

\* An exception leaves handle().
HandleRaise(cls, msg) ==
    /\ handle_error' = Some(<< cls, msg >>)
    /\ hpc' = "done"

\* manage.py configureserver / manage.py deploy: the parser has accepted the command
\* line and handle() is entered.
Invoke ==
    /\ hpc = "idle"
    /\ pc = "idle"
    /\ \E cmd \in CommandNames, opts \in OptionSets :
        /\ ParserAccepts(cmd, opts)
        /\ command' = cmd
        /\ options' = opts
    /\ hpc' = "config"
    /\ UNCHANGED <<pc, op, config, config_args, hosts, prepare_exists, artifact_path,
                   modules, f, fs, script_path, inventory_path, cwd, original_dir, cmds,
                   outcome, error, trace, call, inventory_dir, mode, release_tag, calls,
                   stdout, handle_error, loaded>>

\* handle: config = load_config(...); inventory_dir = options["inventory_dir"] or
\* str(config.get_inventory_dir()); and, in deploy, the mode determination.
HandleConfig ==
    /\ hpc = "config"
    /\ loaded' = Append(loaded, "load_config")
    /\ \/ /\ HandleRaise("Exception", "load_config")
          /\ UNCHANGED <<config, config_args, inventory_dir, mode, release_tag>>
       \/ \E a \in LoadedConfigs :
            LET c == DjaployConfig(a[1], Some("/srv/shop"), a[2], "app", RunModules, None)
            IN  /\ config' = c
                /\ config_args' = << a[1], "app", a[2] >>
                /\ IF ~TruthyOptStr(options.inventory_dir) /\ c.djaploy_dir = None
                   THEN /\ HandleRaise("TypeError", "get_inventory_dir")
                        /\ UNCHANGED <<inventory_dir, mode, release_tag>>
                   ELSE /\ inventory_dir' =
                              Some(IF TruthyOptStr(options.inventory_dir)
                                   THEN << options.inventory_dir[1] >>
                                   ELSE get_inventory_dir(c))
                        /\ IF command # "deploy"
                           THEN /\ hpc' = "inventory"
                                /\ UNCHANGED <<mode, release_tag, handle_error>>
                           ELSE IF DetermineMode(options) = << >>
                           THEN /\ HandleRaise("CommandError", "Must specify one of")
                                /\ UNCHANGED <<mode, release_tag>>
                           ELSE /\ mode' = Some(DetermineMode(options)[1])
                                /\ release_tag' = DetermineMode(options)[2]
                                /\ hpc' = "inventory"
                                /\ UNCHANGED handle_error
    /\ UNCHANGED <<pc, op, hosts, prepare_exists, artifact_path,
                   modules, f, fs, script_path, inventory_path, cwd, original_dir, cmds,
                   outcome, error, trace, call, command, options, calls, stdout>>

\* A check that takes every inventory as non-empty.
NotHostsNever(hs) == FALSE

\* handle: `not hosts` for the list load_inventory returned.
NotHosts(hs) == Len(hs) = 0

\* What deploy handle writes before the call.
Announce ==
    IF command # "deploy" THEN << >>
    ELSE << << "Deploying to", mode[1] >> >>
         \o (IF TruthyOptStr(release_tag) THEN << << "Release tag" >> \o release_tag >>
             ELSE << >>)

\* handle: hosts = load_inventory(inventory_dir, env); if not hosts: raise
\* CommandError; the messages of deploy; and the call of configure_server /
\* deploy_project inside try.
HandleInventory ==
    /\ hpc = "inventory"
    /\ loaded' = Append(loaded, "load_inventory")
    /\ \/ /\ HandleRaise("Exception", "load_inventory")
          /\ UNCHANGED <<pc, op, hosts, prepare_exists, outcome, calls, stdout>>
       \/ \E hs \in CmdHostLists, pe \in BOOLEAN :
            /\ command # "deploy" => ~pe
            /\ hs = << >> => ~pe
            /\ hosts' = hs
            /\ IF NotHosts(hs)
               THEN /\ HandleRaise("CommandError", "No hosts found for environment")
                    /\ UNCHANGED <<pc, op, prepare_exists, outcome, calls, stdout>>
               ELSE /\ stdout' = stdout \o Announce
                    /\ calls' = Append(calls,
                                  [ name |-> IF command = "deploy" THEN "deploy_project"
                                                                   ELSE "configure_server",
                                    hosts |-> hs,
                                    mode |-> mode,
                                    release_tag |-> release_tag ])
                    /\ op' = IF command = "deploy" THEN "deploy" ELSE "configure"
                    /\ prepare_exists' = pe
                    /\ pc' = "validate"
                    /\ outcome' = "running"
                    /\ hpc' = "call"
                    /\ UNCHANGED handle_error
    /\ UNCHANGED <<config, config_args, artifact_path,
                   modules, f, fs, script_path, inventory_path, cwd, original_dir, cmds,
                   error, trace, call, command, options, inventory_dir, mode,
                   release_tag>>

\* handle: the call has ended. self.stdout.write(self.style.SUCCESS(...)) after it
\* returned; except Exception as e: raise CommandError(f"... failed: {e}").
HandleReturn ==
    /\ hpc = "call"
    /\ pc = "done"
    /\ IF outcome = "returned"
       THEN /\ stdout' = Append(stdout, << "SUCCESS", command >>)
            /\ hpc' = "done"
            /\ UNCHANGED handle_error
       ELSE /\ IF IsException(error[1])
               THEN HandleRaise("CommandError", error[1])
               ELSE HandleRaise(error[1], "")
            /\ UNCHANGED stdout
    /\ UNCHANGED <<pc, op, config, config_args, hosts, prepare_exists, artifact_path,
                   modules, f, fs, script_path, inventory_path, cwd, original_dir, cmds,
                   outcome, error, trace, call, command, options, inventory_dir, mode,
                   release_tag, calls, loaded>>

NextCmd ==
    \/ Invoke
    \/ HandleConfig
    \/ HandleInventory
    \/ HandleReturn
    \/ Validate
    \/ CreateArtifact
    \/ LoadModules
    \/ PrepareCheck
    \/ PrepareRun
    \/ CreateScriptFile
    \/ WriteScript
    \/ CreateInventoryFile
    \/ WriteInventory
    \/ RunPyinfra
    \/ UnlinkInventory
    \/ UnlinkScript

SpecCmd == Init /\ [][NextCmd]_vars

\* An Optional[str] that is unset or empty.
EmptyOrUnset(o) == o = None \/ o = Some("")

(***************************************************************************)
(* Claims about the runner (Spec).                                         *)
(***************************************************************************)
\* C1: whenever a call reached the pyinfra subprocess, then once the call has ended
\* (returning after exit status 0, raising after any other) neither the script file
\* nor the inventory file it passed to pyinfra exists any more.
C1_TempFilesRemovedAfterRun ==
    (pc = "done" /\ cmds # << >>) =>
        \A i \in 1..Len(cmds) :
            /\ cmds[i].argv[2] \notin DOMAIN fs
            /\ cmds[i].argv[3] \notin DOMAIN fs
            /\ (cmds[i].status = 0) <=> (outcome = "returned")
            /\ (cmds[i].status # 0) <=> (outcome = "raised")

\* A call has ended raising after pyinfra, which saw both files, exited non-zero.
C1_Witness ==
    /\ pc = "done"
    /\ Len(cmds) = 1
    /\ cmds[1].status # 0
    /\ outcome = "raised"
    /\ { cmds[1].argv[2], cmds[1].argv[3] } \subseteq cmds[1].files
    /\ cmds[1].argv[2] # cmds[1].argv[3]

\* C2: however a call ends, also by an exception raised while generating the script
\* text, building the inventory text or writing either to its file, no temporary file
\* the call created remains on disk.
C2_NoTempFileLeft ==
    pc = "done" => DOMAIN fs = { }

\* C3: validation comes first: a call whose config was given an empty project_name,
\* app_user or djaploy_dir raises the validation error having created no artifact,
\* loaded no module, run no prepare script, created no temporary file and never
\* invoked pyinfra; so pyinfra only runs with the three fields non-empty.
C3_ValidationFirst ==
    (pc # "idle" /\ ( \/ config_args[1] = ""
                      \/ config_args[2] = ""
                      \/ EmptyOrUnset(config_args[3]) )) =>
        /\ pc \in { "validate", "done" }
        /\ pc = "done" => (outcome = "raised" /\ error = Some("ValueError"))
        /\ \A i \in 1..Len(trace) : trace[i] = "validate"
        /\ artifact_path = None /\ modules = << >>
        /\ DOMAIN fs = { }
        /\ cmds = << >>

\* C4: if a host of the call carries a BackupConfig that BackupConfig.validate rejects,
\* the call raises and pyinfra is never invoked.
C4_BadBackupRejected ==
    (\E i \in 1..Len(hosts) :
        hosts[i].backup # None /\ BackupValidate(hosts[i].backup[1]) # "ok") =>
        /\ cmds = << >>
        /\ pc = "done" => outcome = "raised"

(***************************************************************************)
(* Claims about the configuration layer and the generators (SpecFn).       *)
(***************************************************************************)
\* The '<field> is required' entries a claim expects for constructor arguments.
ExpectedMissing(pn, au, dd) ==
    (IF pn = "" THEN << "project_name is required" >> ELSE << >>)
    \o (IF au = "" THEN << "app_user is required" >> ELSE << >>)
    \o (IF EmptyOrUnset(dd) THEN << "djaploy_dir is required" >> ELSE << >>)

\* C5: DjaployConfig.validate raises one ValueError if and only if at least one of
\* project_name, app_user, djaploy_dir is empty or unset, the error lists exactly the
\* missing fields in that order, and it returns True when all three are non-empty.
C5_ValidateRaisesIffEmpty ==
    call.fn = "validate" =>
        LET missing == ExpectedMissing(call.args[1], call.args[2], call.args[3])
        IN  /\ call.result.raised = (missing # << >>)
            /\ call.result.errors = missing

\* C6: BackupConfig.validate, whatever the enabled flag: type sftp raises unless host
\* and user are non-empty, type s3 raises unless endpoint, access key, secret key and
\* bucket are non-empty, any other type always raises, and it returns True otherwise.
C6_BackupValidate ==
    call.fn = "BackupConfig.validate" =>
        LET b == call.args
            returns == call.result = "ok"
        IN  /\ b.type = "sftp" =>
                (returns <=> ~EmptyOrUnset(b.host) /\ ~EmptyOrUnset(b.user))
            /\ b.type = "s3" =>
                (returns <=> /\ ~EmptyOrUnset(b.s3_endpoint)
                             /\ ~EmptyOrUnset(b.s3_access_key)
                             /\ ~EmptyOrUnset(b.s3_secret_key)
                             /\ ~EmptyOrUnset(b.s3_bucket))
            /\ b.type \notin { "sftp", "s3" } => ~returns

\* A disabled SFTP backup without host is rejected, and an S3 backup with all four
\* S3 fields but no SFTP field and no region is accepted.
C6_Witness ==
    /\ call.fn = "BackupConfig.validate"
    /\ \/ /\ call.args.type = "sftp" /\ ~call.args.enabled
          /\ call.args.host = None /\ call.args.user = Some("v")
          /\ call.result # "ok"
       \/ /\ call.args.type = "s3" /\ call.args.host = None
          /\ call.args.s3_region = None /\ call.result = "ok"

\* Some host of an Optional list of hosts has a backup config that is enabled.
AnyBackupEnabled(hs) ==
    /\ hs # None
    /\ \E i \in 1..Len(hs[1]) : hs[1][i].backup # None /\ hs[1][i].backup[1].enabled

\* C7 as stated: after construction the modules list holds the rclone module exactly
\* once whenever some host enables backup, the supplied entries keep their order with
\* a new entry appended last, and the list is unchanged when no host enables backup.
C7_RcloneExactlyOnce ==
    call.fn = "__post_init__" =>
        LET supplied == call.args.modules
        IN  IF AnyBackupEnabled(call.args.hosts)
            THEN /\ Count(call.result, RcloneModule) = 1
                 /\ call.result \in { supplied, Append(supplied, RcloneModule) }
            ELSE call.result = supplied

\* C7 amended: whenever some host enables backup, the rclone module is appended once
\* at the end if the supplied list did not contain it and the list is left as it is if
\* it did (so it holds it exactly once when the supplied list held it at most once);
\* the list is unchanged when no host enables backup.
C7_RcloneAppendedOnce ==
    call.fn = "__post_init__" =>
        LET supplied == call.args.modules
        IN  IF AnyBackupEnabled(call.args.hosts)
            THEN /\ call.result = IF Contains(supplied, RcloneModule)
                                  THEN supplied ELSE Append(supplied, RcloneModule)
                 /\ Count(supplied, RcloneModule) <= 1
                        => Count(call.result, RcloneModule) = 1
            ELSE call.result = supplied

\* Two hosts enable backup, the supplied list lacks the module, the result has it.
C7_Witness ==
    /\ call.fn = "__post_init__"
    /\ call.args.hosts = Some(<< BackupHost, BackupHost >>)
    /\ ~Contains(call.args.modules, RcloneModule)
    /\ Len(call.args.modules) > 0
    /\ Count(call.result, RcloneModule) = 1

\* C8: the inventory text holds exactly one entry per host, in list order, entry i
\* being the rendering of hosts[i].to_pyinfra_host(), between the opening and the
\* closing line.
C8_InventoryOneEntryPerHost ==
    call.fn = "_create_inventory" =>
        LET hs == call.args
            text == call.result
        IN  /\ Len(text) = Len(hs) + 2
            /\ text[1] = << "hosts = [" >>
            /\ text[Len(text)] = << "]" >>
            /\ \A i \in 1..Len(hs) :
                  text[i + 1] = << "    ", Repr(to_pyinfra_host(hs[i])), "," >>

\* An inventory of two different hosts.
C8_Witness ==
    /\ call.fn = "_create_inventory"
    /\ Len(call.args) = 2
    /\ call.args[1] # call.args[2]
    /\ Len(call.result) = 4

\* C9: to_pyinfra_host maps every field: the top-level keys and the nested data keys
\* app_user, env, services, timer_services, domains, app_hostname and backup equal the
\* HostConfig fields, whatever the data bag holds, and every key of the data bag is a
\* key of the nested data mapping.
C9_FieldMapping ==
    call.fn = "to_pyinfra_host" =>
        LET h == call.args
            d == call.result
        IN  /\ d.name = h.name /\ d.ssh_host = h.ssh_host
            /\ d.ssh_user = h.ssh_user /\ d.ssh_port = h.ssh_port
            /\ d.data.app_user = h.app_user
            /\ d.data.env = h.env
            /\ d.data.services = h.services
            /\ d.data.timer_services = h.timer_services
            /\ d.data.domains = h.domains
            /\ d.data.app_hostname =
                  IF EmptyOrUnset(h.app_hostname) THEN h.ssh_host ELSE h.app_hostname[1]
            /\ d.data.backup = h.backup
            /\ \A k \in DOMAIN h.data : k \in DOMAIN d.data

IsImport(line) == Len(line) = 4 /\ line[1] = "from "
IsInstantiation(line) == Len(line) = 5 /\ line[1] = "module = "
IsCall(line) == Len(line) = 3 /\ line[1] = "module."

\* The lifecycle calls a script makes when run from its first line: each call with
\* the class `module` was last bound to.
RECURSIVE ScriptCalls(_, _)
ScriptCalls(lines, bound) ==
    IF lines = << >> THEN << >>
    ELSE IF IsInstantiation(Head(lines)) THEN ScriptCalls(Tail(lines), Head(lines)[2])
    ELSE IF IsCall(Head(lines))
         THEN << << bound, Head(lines)[2] >> >> \o ScriptCalls(Tail(lines), bound)
    ELSE ScriptCalls(Tail(lines), bound)

\* The module imports of a script, in order.
RECURSIVE ScriptImports(_)
ScriptImports(lines) ==
    IF lines = << >> THEN << >>
    ELSE IF IsImport(Head(lines))
         THEN << << Head(lines)[2], Head(lines)[4] >> >> \o ScriptImports(Tail(lines))
    ELSE ScriptImports(Tail(lines))

ConfigurePhase == << "pre_configure", "configure_server", "post_configure" >>
DeployPhase == << "pre_deploy", "deploy", "post_deploy" >>

LifecycleInOrder(mods, text, phase) ==
    /\ Len(ScriptCalls(text, "")) = 3 * Len(mods)
    /\ \A i \in 1..Len(mods) : \A k \in 1..3 :
          ScriptCalls(text, "")[3 * (i - 1) + k] = << mods[i].cls, phase[k] >>
    /\ Len(ScriptImports(text)) = Len(mods)
    /\ \A i \in 1..Len(mods) :
          ScriptImports(text)[i] = << mods[i].module_path, mods[i].cls >>
    /\ \A i, j \in 1..Len(text) : IsImport(text[i]) /\ IsCall(text[j]) => i < j

\* C10: the configure script calls, for each module in list order, pre_configure,
\* configure_server, post_configure, every module's three calls before those of a
\* later module and after all imports; the deploy script does the same with
\* pre_deploy, deploy, post_deploy; neither holds a call of the other phase and every
\* module gets exactly one block of three calls.
C10_LifecycleOrder ==
    /\ call.fn = "_generate_configure_script" =>
          /\ LifecycleInOrder(call.args, call.result, ConfigurePhase)
          /\ \A i \in 1..Len(call.result) :
                IsCall(call.result[i]) => ~Contains(DeployPhase, call.result[i][2])
    /\ call.fn = "_generate_deploy_script" =>
          /\ LifecycleInOrder(call.args, call.result, DeployPhase)
          /\ \A i \in 1..Len(call.result) :
                IsCall(call.result[i]) => ~Contains(ConfigurePhase, call.result[i][2])

\* A configure script for two different modules.
C10_Witness ==
    /\ call.fn = "_generate_configure_script"
    /\ Len(call.args) = 2
    /\ call.args[1] # call.args[2]
    /\ Len(ScriptCalls(call.result, "")) = 6

(***************************************************************************)
(* Claims on the runner: the pyinfra command line, the order of the steps  *)
(* of deploy_project and the working directory.                            *)
(***************************************************************************)
\* C11: a call runs pyinfra at most once, with the arguments inventory path, script
\* path and "-y" in that order, the two paths being the files the call wrote the
\* inventory and the script to; after a non-zero exit status the call does not
\* return normally and pyinfra is not run again.
C11_PyinfraOnceNoRetry ==
    /\ Len(cmds) <= 1
    /\ \A i \in 1..Len(cmds) :
        /\ cmds[i].argv = << "pyinfra", inventory_path[1], script_path[1], "-y" >>
        /\ pc = "unlink_inventory" =>
              /\ fs[cmds[i].argv[2]] = _create_inventory(hosts)
              /\ fs[cmds[i].argv[3]] = ScriptText
        /\ cmds[i].status # 0 =>
              /\ outcome # "returned"
              /\ error # None
              /\ pc = "done" => outcome = "raised"

\* pyinfra has exited with a non-zero status and the call has ended.
C11_Witness ==
    /\ pc = "done"
    /\ Len(cmds) = 1
    /\ cmds[1].status = 1
    /\ cmds[1].argv[4] = "-y"
    /\ error = Some("CalledProcessError")

\* The steps of a deploy_project call that nothing stops, in order; the prepare
\* script is among them when project_dir / "prepare.py" exists.
DeploySteps(with_prepare) ==
    << "validate", "create_artifact", "load_modules" >>
    \o (IF with_prepare THEN << "prepare", "prepare_done" >> ELSE << >>)
    \o << "script_file", "generate_script", "write_script", "create_inventory",
          "inventory_file", "write_inventory", "pyinfra" >>

IsPrefix(s, t) == Len(s) <= Len(t) /\ s = SubSeq(t, 1, Len(s))

\* C15: deploy_project runs validate, create artifact, load modules, prepare.py (only
\* when the file exists), generate and write the script, write the inventory and
\* pyinfra in this order; once a step has failed no later step runs; pyinfra runs
\* only after the modules were loaded, the prepare script (when present) exited
\* successfully and the script file was written.
C15_DeployStepOrder ==
    /\ [](op = "deploy" =>
            /\ IsPrefix(trace, DeploySteps(prepare_exists))
            /\ Contains(trace, "pyinfra") =>
                  /\ modules = load_modules(config.modules, hosts)
                  /\ modules # << >>
                  /\ prepare_exists => Contains(trace, "prepare_done")
                  /\ script_path # None
                  /\ script_path[1] \in cmds[1].files)
    /\ [][op = "deploy" /\ error # None => trace' = trace]_vars

\* A deploy_project call with a prepare script has run every step and returned.
C15_Witness ==
    /\ op = "deploy"
    /\ prepare_exists
    /\ pc = "done"
    /\ outcome = "returned"
    /\ trace = DeploySteps(TRUE)

\* C19: when _run_prepare has finished, with the prepare script exiting successfully
\* or failing, the working directory is the one that was current before the call;
\* while the prepare script runs it is the project directory.
C19_WorkingDirectoryRestored ==
    /\ pc = "prepare_run" => cwd = config.project_dir[1] /\ original_dir = Some("/home/user")
    /\ pc # "prepare_run" => cwd = "/home/user"

\* The prepare script has failed and _run_prepare has raised.
C19_Witness ==
    /\ pc = "done"
    /\ Contains(trace, "prepare")
    /\ error = Some("CalledProcessError")
    /\ cmds = << >>
    /\ original_dir = Some(cwd)

(***************************************************************************)
(* Claims on the management commands.                                      *)
(***************************************************************************)
SuccessWritten == Contains(stdout, << "SUCCESS", command >>)

\* C12: when the configure_server / deploy_project call made by a command raises, for
\* whatever reason, handle raises CommandError; the success message is written if
\* and only if the call returned without raising.
C12_FailuresBecomeCommandError ==
    /\ SuccessWritten => calls # << >> /\ outcome = "returned" /\ handle_error = None
    /\ hpc = "done" /\ calls # << >> =>
          /\ outcome \in { "returned", "raised" }
          /\ outcome = "returned" => SuccessWritten /\ handle_error = None
          /\ outcome = "raised" =>
                /\ handle_error = Some(<< "CommandError", error[1] >>)
                /\ ~SuccessWritten

\* pyinfra has exited with a non-zero status under a command and handle has raised.
C12_Witness ==
    /\ hpc = "done"
    /\ Len(cmds) = 1
    /\ cmds[1].status # 0
    /\ handle_error = Some(<< "CommandError", "CalledProcessError" >>)

NoModeOption(opts) == ~opts.local /\ ~opts.latest /\ ~TruthyOptStr(opts.release)

\* C13: in the deploy command --local gives mode "local" and no release tag, --latest
\* gives mode "latest" and no release tag, --release <tag> gives mode "release" and
\* that tag; a release tag is passed on only in mode "release"; when no option has a
\* truthy value handle raises CommandError, and neither loads the inventory nor
\* deploys.
C13_ModeFromOptions ==
    command = "deploy" =>
        /\ mode \in { None, Some("local"), Some("latest"), Some("release") }
        /\ mode # None =>
              /\ options.local => mode = Some("local") /\ release_tag = None
              /\ options.latest => mode = Some("latest") /\ release_tag = None
              /\ options.release # None =>
                    /\ mode = Some("release")
                    /\ release_tag = options.release
                    /\ TruthyOptStr(release_tag)
        /\ release_tag # None => mode = Some("release")
        /\ \A i \in 1..Len(calls) :
              /\ calls[i].mode = mode /\ mode # None
              /\ calls[i].release_tag = release_tag
              /\ calls[i].release_tag # None => calls[i].mode = Some("release")
        /\ inventory_dir # None /\ ~NoModeOption(options) => mode # None
        /\ NoModeOption(options) =>
              /\ mode = None
              /\ ~Contains(loaded, "load_inventory")
              /\ calls = << >>
              /\ pc = "idle"
              /\ inventory_dir # None =>
                    /\ hpc = "done"
                    /\ handle_error = Some(<< "CommandError", "Must specify one of" >>)

\* deploy --release "" has raised CommandError.
C13_Witness ==
    /\ command = "deploy"
    /\ options.release = Some("")
    /\ hpc = "done"
    /\ loaded = << "load_config" >>
    /\ handle_error = Some(<< "CommandError", "Must specify one of" >>)

\* load_inventory has returned and the inventory is empty.
EmptyInventoryLoaded ==
    /\ Contains(loaded, "load_inventory")
    /\ handle_error # Some(<< "Exception", "load_inventory" >>)
    /\ hosts = << >>

\* C14: when the loaded inventory is empty the command raises CommandError and
\* configure_server / deploy_project is not called: nothing is validated, no
\* artifact or temp file is created and pyinfra is not run. The function is called
\* with a non-empty host list only.
C14_EmptyInventoryNoCall ==
    /\ \A i \in 1..Len(calls) : calls[i].hosts # << >> /\ calls[i].hosts = hosts
    /\ pc # "idle" => calls # << >>
    /\ EmptyInventoryLoaded =>
          /\ hpc = "done"
          /\ handle_error = Some(<< "CommandError", "No hosts found for environment" >>)
          /\ calls = << >>
          /\ pc = "idle"
          /\ trace = << >>
          /\ artifact_path = None
          /\ fs = << >>
          /\ cmds = << >>

\* A command found its inventory empty.
C14_Witness ==
    /\ EmptyInventoryLoaded
    /\ hpc = "done"
    /\ command = "configureserver"
    /\ handle_error # None

(***************************************************************************)
(* Claims on the modules: the operations CoreModule and TailscaleModule    *)
(* issue.                                                                  *)
(***************************************************************************)
\* What an issued entry is, told by its function and its name.
OpKind(e) ==
    IF e[1] = "host.get_fact" THEN "fact"
    ELSE IF e[1] = "apt.packages" /\ e[2] = "Install Python " THEN "package_install"
    ELSE IF e[2] = "Install Python build dependencies" THEN "build_dependencies"
    ELSE IF e[2] = "Download Python " THEN "download"
    ELSE IF e[2] = "Configure and compile Python " THEN "compile"
    ELSE IF e[2] = "Install Python " /\ e[Len(e)] = " using altinstall" THEN "altinstall"
    ELSE IF e[2] = "Clean up Python " THEN "cleanup"
    ELSE IF e[2] = "Python " /\ Contains(e, " already installed at ") THEN "echo"
    ELSE "other"

OpKinds(issued) == [ i \in 1..Len(issued) |-> OpKind(issued[i]) ]

\* The value of a boolean key of a mapping, False when the key is missing.
IsSet(d, key) == key \in DOMAIN d /\ d[key]

\* C16: without python_compile (false or missing) _install_python issues the package
\* install of the interpreter and nothing else; with python_compile it first queries
\* the fact for the versioned interpreter binary, issues only an echo when the
\* binary is present, and issues build dependencies, download, configure/compile,
\* altinstall and cleanup, in this order and nothing else, when it is absent.
C16_InterpreterInstallation ==
    call.fn = "_install_python" =>
        LET project_config == call.args[1]
            which == call.args[2]
            version == project_config["python_version"]
            compiled == IsSet(project_config, "python_compile")
        IN  /\ ~compiled =>
                  call.result = << << "apt.packages", "Install Python ", version >> >>
            /\ compiled =>
                  call.result[1] =
                      << "host.get_fact", "Which", "/usr/local/bin/python", version >>
            /\ compiled /\ which # None => OpKinds(call.result) = << "fact", "echo" >>
            /\ compiled /\ which = None =>
                  OpKinds(call.result) =
                      << "fact", "build_dependencies", "download", "compile",
                         "altinstall", "cleanup" >>

\* The interpreter is to be compiled and is not on the host yet.
C16_Witness ==
    /\ call.fn = "_install_python"
    /\ IsSet(call.args[1], "python_compile")
    /\ call.args[2] = None
    /\ Len(call.result) = 6

\* The positions of the entries with a name.
Positions(issued, name) == { i \in 1..Len(issued) : issued[i][2] = name }

\* C17: without a tailscale_auth_key (missing or empty) configure_server issues no
\* operation and queries no fact; with a key it issues the install operation if and
\* only if the package fact is None, the authenticate operation exactly once, and
\* the install before the authenticate.
C17_TailscaleConfigure ==
    call.fn = "TailscaleModule.configure_server" =>
        LET host_data == call.args[1]
            deb_package == call.args[2]
            has_key == /\ "tailscale_auth_key" \in DOMAIN host_data
                       /\ host_data["tailscale_auth_key"] # ""
            installs == Positions(call.result, "Install Tailscale")
            auths == Positions(call.result, "Authenticate Tailscale")
        IN  /\ ~has_key => call.result = << >>
            /\ has_key =>
                  /\ installs # { } <=> deb_package = None
                  /\ Cardinality(installs) <= 1
                  /\ Cardinality(auths) = 1
                  /\ \A i \in installs, j \in auths : i < j
                  /\ \A j \in auths :
                        call.result[j][4] = host_data["tailscale_auth_key"]
                  /\ Len(call.result) = 1 + Cardinality(installs) + 1

\* A key is configured and tailscale is not installed on the host.
C17_Witness ==
    /\ call.fn = "TailscaleModule.configure_server"
    /\ call.args[2] = None
    /\ Positions(call.result, "Install Tailscale") = { 2 }
    /\ Positions(call.result, "Authenticate Tailscale") = { 3 }

\* The names of the operations of deploy up to the optional certificates.
DeployOrder ==
    << "Create tars directory", "Create application directory",
       "Upload deployment artifact", "Extract artifact and set permissions",
       "Put deploy files (NGINX, systemd) in place on remote",
       "Clear default NGINX site and enable application sites" >>

CertificateNames ==
    { "Install OpenSSL for certificate generation", "Create SSL directory",
      "Generate self-signed SSL certificate for " }

NotCertificateName(name) == name \notin CertificateNames

\* C18: deploy issues create directories, upload artifact, extract artifact, copy
\* deploy files, enable nginx sites, the certificate generation only when
\* pregenerate_certificates is set, install dependencies, run migrations, collect
\* static files, in this order; dependencies are always installed; migrations and
\* static collection are issued if and only if manage_py_path is configured, both
\* or neither.
C18_CoreDeployOrder ==
    call.fn = "CoreModule.deploy" =>
        LET host_data == call.args[1]
            project_config == call.args[2]
            names == [ i \in 1..Len(call.result) |-> call.result[i][2] ]
            configured == /\ "manage_py_path" \in DOMAIN project_config
                          /\ project_config["manage_py_path"] # ""
            certificates == { i \in 1..Len(names) : names[i] \in CertificateNames }
        IN  /\ SelectSeq(names, NotCertificateName) =
                  DeployOrder \o << "Install Python dependencies" >>
                  \o (IF configured
                      THEN << "Run database migrations", "Collect static files" >>
                      ELSE << >>)
            /\ certificates # { } <=> IsSet(host_data, "pregenerate_certificates")
            /\ \A i \in certificates :
                  /\ i > Len(DeployOrder)
                  /\ \A j \in 1..Len(names) :
                        names[j] = "Install Python dependencies" => i < j
            /\ Count(names, "Install Python dependencies") = 1
            /\ Count(names, "Run database migrations") = Count(names, "Collect static files")

\* A deploy with certificates for two domains and with manage_py_path configured.
C18_Witness ==
    /\ call.fn = "CoreModule.deploy"
    /\ IsSet(call.args[1], "pregenerate_certificates")
    /\ Len(call.result) = 13
    /\ call.result[13][2] = "Collect static files"
    /\ call.result[12][2] = "Run database migrations"

====
